---- MODULE Spec2Model ----
(***************************************************************************)
(* A model of two sections of pythonic.py:                                 *)
(*   - lines 29-51: a list iterator shared by two consecutive for loops,   *)
(*     the first of which breaks early;                                    *)
(*   - lines 69-78: a CSV file read through its line iterator, the first   *)
(*     line split into field names, every other line zipped with them into *)
(*     a dictionary record, and the 'quantity' column summed.              *)
(* Strings are sequences of one-character strings, so that split() and     *)
(* int() are computed character by character.                              *)
(***************************************************************************)
EXTENDS Integers, Sequences, FiniteSets, TLC

VARIABLES lst, limit, itr_lst, run1, run2, ipc,
          file, fpos, field_names, records, sum_idx, total, err, pc

ivars == <<lst, limit, itr_lst, run1, run2, ipc>>
cvars == <<file, fpos, field_names, records, sum_idx, total, err, pc>>
vars == <<lst, limit, itr_lst, run1, run2, ipc,
          file, fpos, field_names, records, sum_idx, total, err, pc>>

(* ------------------------------ bounds -------------------------------- *)

\* longest list handed to iter()
MaxItems == 3
\* list items and the break threshold range over 0..MaxVal
MaxVal == 2
\* most fields in a header line or in a data line
MaxFields == 3
\* most cells in the data lines of the file, all lines together
MaxCells == 3

(* ----------------------------- characters ----------------------------- *)

Comma == ","
Newline == "\n"
Whitespace == {Newline, " "}
Digits == {"0", "1", "2", "3", "4", "5", "6", "7", "8", "9"}

\* the field names and the cell values the files of the model are built from
Names == {<<"q">>, <<"z">>}
Cells == {<<"3">>, <<"5">>, <<"x">>}

\* the column summed: record['quantity']
QUANTITY == <<"q">>

Min(a, b) == IF a < b THEN a ELSE b

(* --------------------- section 1: the list iterator ------------------- *)

\* iter(lst): a fresh iterator at the start of the list
Iter(seq) == [seq |-> seq, pos |-> 0]

\* iter(itr_lst), which a for statement calls on what it loops over,
\* restarted as iter() of a list would be
IterOfRestart(it) == [it EXCEPT !.pos = 0]

\* iter(itr_lst), which a for statement calls on what it loops over: an
\* iterator is its own iterator, position included
IterOf(it) == it

\* next() has an item to return
HasNext(it) == it.pos < Len(it.seq)

\* the item next() returns, and the iterator after it
NextItem(it) == it.seq[it.pos + 1]
Advance(it) == [it EXCEPT !.pos = it.pos + 1]

\* the CSV section before it runs
CsvIdle ==
    /\ file = <<>> /\ fpos = 0 /\ field_names = <<>> /\ records = <<>>
    /\ sum_idx = 0 /\ total = 0 /\ err = "none" /\ pc = "idle"

InitIter ==
    /\ CsvIdle
    /\ lst \in UNION {[1..n -> 0..MaxVal] : n \in 0..MaxItems}
    /\ limit \in 0..MaxVal
    /\ itr_lst = Iter(lst)
    /\ run1 = <<>>
    /\ run2 = <<>>
    /\ ipc = "enter1"

\* entering either for loop: the statement loops over iter(itr_lst), which is
\* the object itr_lst itself
EnterLoop ==
    /\ ipc \in {"enter1", "enter2"}
    /\ itr_lst' = IterOf(itr_lst)
    /\ ipc' = IF ipc = "enter1" THEN "loop1" ELSE "loop2"
    /\ UNCHANGED <<lst, limit, run1, run2>>
    /\ UNCHANGED cvars

\* for item in itr_lst: do_something(item); if item > 150: break
Loop1Step ==
    /\ ipc = "loop1"
    /\ IF HasNext(itr_lst)
       THEN /\ run1' = Append(run1, NextItem(itr_lst))
            /\ itr_lst' = Advance(itr_lst)
            /\ ipc' = IF NextItem(itr_lst) > limit THEN "enter2" ELSE "loop1"
       ELSE /\ ipc' = "enter2"
            /\ UNCHANGED <<itr_lst, run1>>
    /\ UNCHANGED <<lst, limit, run2>>
    /\ UNCHANGED cvars

\* for item in itr_lst: do_something(item)
Loop2Step ==
    /\ ipc = "loop2"
    /\ IF HasNext(itr_lst)
       THEN /\ run2' = Append(run2, NextItem(itr_lst))
            /\ itr_lst' = Advance(itr_lst)
            /\ ipc' = "loop2"
       ELSE /\ ipc' = "done"
            /\ UNCHANGED <<itr_lst, run2>>
    /\ UNCHANGED <<lst, limit, run1>>
    /\ UNCHANGED cvars

(* ------------------------ section 2: strings -------------------------- *)

\* s.split(','): the pieces between the commas, always at least one
RECURSIVE Split(_)
Split(s) ==
    IF s = <<>> THEN << <<>> >>
    ELSE LET rest == Split(Tail(s)) IN
         IF Head(s) = Comma
         THEN << <<>> >> \o rest
         ELSE << <<Head(s)>> \o Head(rest) >> \o Tail(rest)

\* what int() does before reading digits: s.strip()
RECURSIVE LStrip(_)
LStrip(s) ==
    IF s # <<>> /\ Head(s) \in Whitespace THEN LStrip(Tail(s)) ELSE s

RECURSIVE RStrip(_)
RStrip(s) ==
    IF s # <<>> /\ s[Len(s)] \in Whitespace
    THEN RStrip(SubSeq(s, 1, Len(s) - 1)) ELSE s

Strip(s) == RStrip(LStrip(s))

DigitVal(c) ==
    CASE c = "0" -> 0 [] c = "1" -> 1 [] c = "2" -> 2 [] c = "3" -> 3
      [] c = "4" -> 4 [] c = "5" -> 5 [] c = "6" -> 6 [] c = "7" -> 7
      [] c = "8" -> 8 [] c = "9" -> 9

RECURSIVE DecVal(_)
DecVal(s) ==
    IF s = <<>> THEN 0
    ELSE 10 * DecVal(SubSeq(s, 1, Len(s) - 1)) + DigitVal(s[Len(s)])

AllDigits(s) == s # <<>> /\ \A i \in 1..Len(s) : s[i] \in Digits

\* int(s): [ok |-> TRUE, val |-> n], or ok = FALSE where int raises ValueError
IntOf(s) ==
    LET t == Strip(s)
        signed == t # <<>> /\ Head(t) \in {"+", "-"}
        body == IF signed THEN Tail(t) ELSE t
    IN IF AllDigits(body)
       THEN [ok |-> TRUE,
             val |-> IF signed /\ Head(t) = "-" THEN 0 - DecVal(body)
                     ELSE DecVal(body)]
       ELSE [ok |-> FALSE, val |-> 0]

(* ------------------------ section 2: records -------------------------- *)

\* a zip over all of a, an empty string where b has no value
ZipPadded(a, b) ==
    [i \in 1..Len(a) |-> <<a[i], IF i <= Len(b) THEN b[i] ELSE <<>>>>]

\* zip(a, b): the pairs up to the shorter of the two
Zip(a, b) == [i \in 1..Min(Len(a), Len(b)) |-> <<a[i], b[i]>>]

\* a dictionary that keeps the value a key already has
SetItemKeepFirst(d, k, v) ==
    [x \in DOMAIN d \cup {k} |-> IF x \in DOMAIN d THEN d[x] ELSE v]

\* d[k] = v
SetItem(d, k, v) ==
    [x \in DOMAIN d \cup {k} |-> IF x = k THEN v ELSE d[x]]

\* dict(pairs): the pairs stored in order into an empty dictionary
RECURSIVE DictFrom(_, _)
DictFrom(pairs, d) ==
    IF pairs = <<>> THEN d
    ELSE DictFrom(Tail(pairs), SetItem(d, Head(pairs)[1], Head(pairs)[2]))

EmptyDict == [x \in {} |-> <<>>]
Dict(pairs) == DictFrom(pairs, EmptyDict)

\* dict(zip(field_names, line.split(',')))
MakeRecord(names, line) == Dict(Zip(names, Split(line)))

(* ------------------------- section 2: the file ------------------------ *)

RECURSIVE Join(_)
Join(fields) ==
    IF Len(fields) = 1 THEN fields[1]
    ELSE fields[1] \o <<Comma>> \o Join(Tail(fields))

FieldLists(S) == UNION {[1..n -> S] : n \in 1..MaxFields}

\* the lines a file iterator yields: every line ends with its newline,
\* except that the last line of the file may lack one
FileOf(header, rows, lastNewline) ==
    LET body == <<header>> \o rows
        n == Len(body)
    IN [i \in 1..n |->
          Join(body[i]) \o (IF i < n \/ lastNewline THEN <<Newline>> ELSE <<>>)]

RECURSIVE SumLens(_)
SumLens(lens) == IF lens = <<>> THEN 0 ELSE Head(lens) + SumLens(Tail(lens))

\* the data lines of lens[i] cells each, cut from the cells of flat in order
RowsOf(lens, flat) ==
    [i \in 1..Len(lens) |->
        SubSeq(flat, SumLens(SubSeq(lens, 1, i - 1)) + 1,
                     SumLens(SubSeq(lens, 1, i)))]

\* data.csv: empty, or a header line of field names and data lines of cells
IsFile(f) ==
    \/ f = <<>>
    \/ \E h \in FieldLists(Names), nl \in BOOLEAN :
       \E lens \in UNION {[1..r -> 1..MaxFields] : r \in 0..MaxCells} :
          /\ SumLens(lens) <= MaxCells
          /\ \E flat \in [1..SumLens(lens) -> Cells] :
                f = FileOf(h, RowsOf(lens, flat), nl)

IterIdle ==
    /\ lst = <<>> /\ limit = 0 /\ itr_lst = Iter(<<>>)
    /\ run1 = <<>> /\ run2 = <<>> /\ ipc = "idle"

Init ==
    /\ IterIdle
    /\ IsFile(file)
    /\ fpos = 0
    /\ field_names = <<>>
    /\ records = <<>>
    /\ sum_idx = 0
    /\ total = 0
    /\ err = "none"
    /\ pc = "open"

\* f = open('data.csv')
Open ==
    /\ pc = "open"
    /\ pc' = "header"
    /\ fpos' = 0
    /\ UNCHANGED <<file, field_names, records, sum_idx, total, err>>
    /\ UNCHANGED ivars

\* f.next() that skips a line each time it returns one
NextLineSkip(f, pos) ==
    IF pos < Len(f)
    THEN [ok |-> TRUE, line |-> f[pos + 1], pos |-> pos + 2]
    ELSE [ok |-> FALSE, line |-> <<>>, pos |-> pos]

\* next(f, ''): an empty line where the file has no more
NextLineOrEmpty(f, pos) ==
    IF pos < Len(f)
    THEN [ok |-> TRUE, line |-> f[pos + 1], pos |-> pos + 1]
    ELSE [ok |-> TRUE, line |-> <<>>, pos |-> pos]

\* f.next(): the next line and the position after it; ok is FALSE where
\* next() raises StopIteration
NextLine(f, pos) ==
    IF pos < Len(f)
    THEN [ok |-> TRUE, line |-> f[pos + 1], pos |-> pos + 1]
    ELSE [ok |-> FALSE, line |-> <<>>, pos |-> pos]

\* field_names = f.next().split(',')
ReadHeader ==
    /\ pc = "header"
    /\ LET nx == NextLine(file, fpos) IN
       IF nx.ok
       THEN /\ field_names' = Split(nx.line)
            /\ fpos' = nx.pos
            /\ pc' = "records"
            /\ err' = err
       ELSE /\ err' = "StopIteration"
            /\ pc' = "done"
            /\ UNCHANGED <<field_names, fpos>>
    /\ UNCHANGED <<file, records, sum_idx, total>>
    /\ UNCHANGED ivars

\* one turn of [dict(zip(field_names, line.split(','))) for line in f]
ReadRecord ==
    /\ pc = "records"
    /\ LET nx == NextLine(file, fpos) IN
       IF nx.ok
       THEN /\ records' = Append(records, MakeRecord(field_names, nx.line))
            /\ fpos' = nx.pos
            /\ pc' = "records"
       ELSE /\ pc' = "sum"
            /\ UNCHANGED <<records, fpos>>
    /\ UNCHANGED <<file, field_names, sum_idx, total, err>>
    /\ UNCHANGED ivars

\* a turn that drops a record it cannot add
SumTurnSkip(t, record) ==
    IF QUANTITY \in DOMAIN record /\ IntOf(record[QUANTITY]).ok
    THEN [err |-> "none", total |-> t + IntOf(record[QUANTITY]).val]
    ELSE [err |-> "none", total |-> t]

\* a turn that reads the column with record.get('quantity', 0)
SumTurnDefault(t, record) ==
    IF QUANTITY \notin DOMAIN record THEN [err |-> "none", total |-> t]
    ELSE IF ~IntOf(record[QUANTITY]).ok THEN [err |-> "ValueError", total |-> t]
    ELSE [err |-> "none", total |-> t + IntOf(record[QUANTITY]).val]

\* a turn that reports a missing column as a value that does not convert
SumTurnUniform(t, record) ==
    IF QUANTITY \notin DOMAIN record \/ ~IntOf(record[QUANTITY]).ok
    THEN [err |-> "ValueError", total |-> t]
    ELSE [err |-> "none", total |-> t + IntOf(record[QUANTITY]).val]

\* one turn of sum(): int(record['quantity']) added to the running total t,
\* or the exception the lookup or the conversion raises
SumTurn(t, record) ==
    IF QUANTITY \notin DOMAIN record THEN [err |-> "KeyError", total |-> t]
    ELSE IF ~IntOf(record[QUANTITY]).ok THEN [err |-> "ValueError", total |-> t]
    ELSE [err |-> "none", total |-> t + IntOf(record[QUANTITY]).val]

\* a sum() that refuses to return when it has added nothing
SumEndNonEmpty(t, n) ==
    IF n = 0 THEN [err |-> "EmptyAggregationError", total |-> t]
    ELSE [err |-> "none", total |-> t]

\* sum() at the end of its argument: the total of the n values added, which
\* is its start value 0 when n = 0
SumEnd(t, n) == [err |-> "none", total |-> t]

\* sum(int(record['quantity']) for record in records), one record at a time
SumStep ==
    /\ pc = "sum"
    /\ IF sum_idx < Len(records)
       THEN LET r == SumTurn(total, records[sum_idx + 1]) IN
            /\ err' = r.err
            /\ total' = r.total
            /\ sum_idx' = IF r.err = "none" THEN sum_idx + 1 ELSE sum_idx
            /\ pc' = IF r.err = "none" THEN "sum" ELSE "done"
       ELSE LET r == SumEnd(total, sum_idx) IN
            /\ err' = r.err
            /\ total' = r.total
            /\ pc' = "done"
            /\ UNCHANGED sum_idx
    /\ UNCHANGED <<file, fpos, field_names, records>>
    /\ UNCHANGED ivars

Next == Open \/ ReadHeader \/ ReadRecord \/ SumStep

Spec == Init /\ [][Next]_vars

NextIter == EnterLoop \/ Loop1Step \/ Loop2Step

SpecIter == InitIter /\ [][NextIter]_vars

(* ------------------------- what the claims use ------------------------ *)

\* the header line has been read
HeaderRead == pc \in {"records", "sum", "done"} /\ err # "StopIteration"

\* the values data line i splits into, and how many of them zip() pairs
ValuesOf(i) == Split(file[i + 1])
Paired(i) == Min(Len(field_names), Len(ValuesOf(i)))

\* the column summed is one of the header's names
InHeader == \E j \in 1..Len(field_names) : field_names[j] = QUANTITY

\* the number a cell of the model's files stands for, -1 when it is none;
\* the last cell of a line carries the line's newline
CellText(s) ==
    IF s # <<>> /\ s[Len(s)] = Newline THEN SubSeq(s, 1, Len(s) - 1) ELSE s
Number(s) ==
    CASE CellText(s) = <<"3">> -> 3
      [] CellText(s) = <<"5">> -> 5
      [] OTHER -> 0 - 1

\* row i has the column and its value is a number
Good(i) ==
    /\ QUANTITY \in DOMAIN records[i]
    /\ Number(records[i][QUANTITY]) >= 0

\* the numbers of the good rows among the first n, added up
RECURSIVE SkipSum(_)
SkipSum(n) ==
    IF n = 0 THEN 0
    ELSE SkipSum(n - 1) + (IF Good(n) THEN Number(records[n][QUANTITY]) ELSE 0)

AllGood == \A i \in 1..Len(records) : Good(i)
NoneGood == \A i \in 1..Len(records) : ~Good(i)
FirstBad ==
    CHOOSE b \in 1..Len(records) : ~Good(b) /\ \A i \in 1..(b - 1) : Good(i)

\* the last position among the first m of the header that holds name
LastPos(name, m) ==
    CHOOSE j \in 1..m :
        /\ field_names[j] = name
        /\ \A k \in (j + 1)..m : field_names[k] # name

\* the numbers at the last in-range position of the column, first n rows
RECURSIVE LastSum(_)
LastSum(n) ==
    IF n = 0 THEN 0
    ELSE LastSum(n - 1) + Number(ValuesOf(n)[LastPos(QUANTITY, Paired(n))])

(* ------------------------------- claims ------------------------------- *)

\* C1: resume law. The first loop stops after item k of the list and the
\* second loop over the same iterator yields exactly items k+1..N in order,
\* none twice and none missed; it never starts again at item 1.
C1_ResumeLaw ==
    /\ Len(run1) + Len(run2) <= Len(lst)
    /\ \A i \in 1..Len(run1) : run1[i] = lst[i]
    /\ \A j \in 1..Len(run2) : run2[j] = lst[Len(run1) + j]
    /\ ipc = "done" => Len(run1) + Len(run2) = Len(lst)

\* the first loop broke in the middle of the list and the second finished it
C1_Witness ==
    /\ ipc = "done"
    /\ Len(run1) > 0
    /\ Len(run2) > 0
    /\ Len(run1) + Len(run2) = Len(lst)
    /\ run2[1] # lst[1]

C3_HeaderOnce ==
    HeaderRead =>
        /\ Join(field_names) = file[1]
        /\ \A j \in 1..Len(field_names) :
              \A c \in 1..Len(field_names[j]) : field_names[j][c] # Comma
        /\ fpos = 1 + Len(records)
        /\ \A i \in 1..Len(records) :
              records[i] = MakeRecord(field_names, file[i + 1])

\* the header was read again for each of two rows and the file is used up
C3_Witness ==
    /\ pc = "sum"
    /\ Len(records) >= 2
    /\ fpos = Len(file)
    /\ Len(field_names) >= 2

\* C4 as stated: the sum skips the rows whose value does not convert and
\* returns the sum of the others.
C4_SkipSum_Original ==
    (pc = "done" /\ HeaderRead /\ InHeader) =>
        /\ err = "none"
        /\ total = SkipSum(Len(records))

\* C4 amended: the sum returns the sum of the values of all rows when every
\* row has the column with a value that converts; otherwise it raises
\* KeyError or ValueError and returns nothing: no row is skipped.
C4_SumOrAbort ==
    (pc = "done" /\ HeaderRead) =>
        IF AllGood
        THEN err = "none" /\ total = SkipSum(Len(records))
        ELSE err \in {"KeyError", "ValueError"}

\* the rows 3 and 5 were summed to 8
C4_Witness ==
    /\ pc = "done"
    /\ err = "none"
    /\ Len(records) = 2
    /\ total = 8

\* C6 as stated: with no row converted, the sum fails with
\* EmptyAggregationError.
C6_EmptyFails_Original ==
    (pc = "done" /\ HeaderRead /\ NoneGood) => err = "EmptyAggregationError"

\* C6 amended: over a header and no data rows the sum returns 0 without an
\* error; over rows none of which has a value that converts it raises
\* KeyError or ValueError at the first row.
C6_EmptySumIsZero ==
    (pc = "done" /\ HeaderRead /\ NoneGood) =>
        IF records = <<>>
        THEN err = "none" /\ total = 0
        ELSE err \in {"KeyError", "ValueError"} /\ sum_idx = 0

\* a file of a header line only was summed to 0
C6_Witness ==
    /\ pc = "done"
    /\ Len(file) = 1
    /\ records = <<>>
    /\ err = "none"
    /\ total = 0

\* C7 as stated: a column that is not in the header fails the sum with the
\* unknown-field error, before any row is added, whatever the number of rows.
C7_UnknownField_Original ==
    (pc = "done" /\ HeaderRead /\ ~InHeader) =>
        err = "KeyError" /\ sum_idx = 0

\* C7 amended: a column that is not in the header fails the sum with KeyError
\* at the first row, before any row is added, when there is at least one data
\* row; with no data row the sum returns 0.
C7_UnknownField ==
    (pc = "done" /\ HeaderRead /\ ~InHeader) =>
        IF records = <<>>
        THEN err = "none" /\ total = 0
        ELSE err = "KeyError" /\ sum_idx = 0 /\ total = 0

\* two rows were read under a header without the column, and the sum failed
C7_Witness ==
    /\ pc = "done"
    /\ ~InHeader
    /\ Len(records) >= 2
    /\ err = "KeyError"

\* C8: opening the file consumes no line and raises nothing, whatever the
\* file holds; reading the header of an empty file raises StopIteration and
\* ends the script.
C8_EmptyInput ==
    /\ pc = "header" => fpos = 0 /\ err = "none"
    /\ (file = <<>> /\ pc \notin {"open", "header"}) =>
          pc = "done" /\ err = "StopIteration" /\ fpos = 0

\* the header of an empty file was asked for
C8_Witness ==
    /\ file = <<>>
    /\ pc = "done"
    /\ err = "StopIteration"

\* C9 as stated: a row without the column is handled as a row whose value
\* does not convert, so under the failing policy either surfaces the
\* conversion error.
C9_AbsentAsBad_Original ==
    (pc = "done" /\ HeaderRead /\ InHeader /\ ~AllGood) => err = "ValueError"

\* C9 amended: the first bad row ends the sum whatever its position, the rows
\* before it having been added; a row without the column raises KeyError, a
\* row whose value does not convert raises ValueError.
C9_FirstBadAborts ==
    (pc = "done" /\ HeaderRead /\ ~AllGood) =>
        /\ sum_idx = FirstBad - 1
        /\ total = SkipSum(FirstBad - 1)
        /\ err = IF QUANTITY \in DOMAIN records[FirstBad]
                 THEN "ValueError" ELSE "KeyError"

\* the header has the column, a first row was added, and a later row too
\* short to have the column failed the sum
C9_Witness ==
    /\ pc = "done"
    /\ InHeader
    /\ sum_idx >= 1
    /\ sum_idx < Len(records)
    /\ QUANTITY \notin DOMAIN records[sum_idx + 1]
    /\ err = "KeyError"

\* C10: where the header repeats a name, a row maps the name to the value at
\* the last of its positions that the line has a value for, the row has one
\* entry for each distinct name among the positions paired, and the sum over
\* the name adds the values at that last position.
C10_LastWins ==
    /\ \A i \in 1..Len(records) :
          /\ \A j \in 1..Paired(i) :
                records[i][field_names[j]]
                    = ValuesOf(i)[LastPos(field_names[j], Paired(i))]
          /\ Cardinality(DOMAIN records[i])
                = Cardinality({field_names[j] : j \in 1..Paired(i)})
    /\ (pc = "done" /\ err = "none") => total = LastSum(Len(records))

\* the header names the column twice, a row has two different values there,
\* and the sum is the second
C10_Witness ==
    /\ pc = "done"
    /\ err = "none"
    /\ Len(records) = 1
    /\ Len(field_names) >= 2
    /\ field_names[1] = QUANTITY
    /\ field_names[2] = QUANTITY
    /\ Len(ValuesOf(1)) >= 2
    /\ Number(ValuesOf(1)[1]) # Number(ValuesOf(1)[2])
    /\ total = Number(ValuesOf(1)[2])

====
